---------------------------- MODULE Spec2Model ----------------------------
(***************************************************************************)
(* A model of json-to-sqlite.py: the JsonToSqlite converter, which infers  *)
(* a relational schema from JSON documents (schema pass) and then writes   *)
(* the documents as rows of nested tables (write pass).                    *)
(*                                                                         *)
(* Names (table paths, column names, JSON keys) are sequences of one-      *)
(* character strings, so that _sanitize_name, the "__" separator and the   *)
(* writer's split on "__" are computed character by character.             *)
(***************************************************************************)
EXTENDS Integers, Sequences, FiniteSets, TLC

VARIABLES
    input,          \* the file: [shape, ws, recs, times]
    pc,             \* position of the run inside process_file
    idx,            \* 1-based number of the next record of the current pass
    known_tables,   \* self.known_tables: table path -> set of column names
    db,             \* the storage engine: table -> [cols, rows, seq]
    log,            \* logger.error entries, in order
    commits,        \* number of conn.commit() calls so far
    pending,        \* records visited by the write pass since the last commit
    written,        \* history: one entry per INSERT that succeeded
    returned,       \* history: record numbers whose top-level _insert_data returned
    ddl             \* history: the CREATE TABLE and ADD COLUMN statements executed

vars == <<input, pc, idx, known_tables, db, log, commits, pending, written, returned, ddl>>

-----------------------------------------------------------------------------
(* Bounds of the model *)

\* longest input, in records (array elements or lines)
MaxRecs == 2

\* longest of the long inputs, in commit batches
MaxBatches == 1

\* longest earlier run, in documents
MaxPrior == 1

-----------------------------------------------------------------------------
(* Characters and names *)

LowerLetters ==
    <<"a","b","c","d","e","f","g","h","i","j","k","l","m",
      "n","o","p","q","r","s","t","u","v","w","x","y","z">>

UpperLetters ==
    <<"A","B","C","D","E","F","G","H","I","J","K","L","M",
      "N","O","P","Q","R","S","T","U","V","W","X","Y","Z">>

Digits == {"0","1","2","3","4","5","6","7","8","9"}

Range(s) == {s[i] : i \in DOMAIN s}

Letters == Range(LowerLetters) \cup Range(UpperLetters)

AlnumChars == Letters \cup Digits

\* str.isalnum() of one character (ASCII letters and digits)
IsAlnum(c) == c \in AlnumChars

LowerOf ==
    [c \in Range(UpperLetters) |->
        LowerLetters[CHOOSE i \in DOMAIN UpperLetters : UpperLetters[i] = c]]

\* str.lower() of one character
LowerChar(c) == IF c \in DOMAIN LowerOf THEN LowerOf[c] ELSE c

\* str.lower()
Lower(s) == [i \in 1..Len(s) |-> LowerChar(s[i])]

\* reserved_keywords of _sanitize_name
reserved_keywords ==
    { <<"a","b","o","r","t">>, <<"a","c","t","i","o","n">>, <<"a","d","d">>, 
      <<"a","f","t","e","r">>, <<"a","l","l">>, <<"a","l","t","e","r">>, 
      <<"a","n","a","l","y","z","e">>, <<"a","n","d">>, <<"a","s">>, <<"a","s","c">>, 
      <<"a","t","t","a","c","h">>, <<"a","u","t","o","i","n","c","r","e","m","e","n","t">>, 
      <<"b","e","f","o","r","e">>, <<"b","e","g","i","n">>, <<"b","e","t","w","e","e","n">>, 
      <<"b","y">>, <<"c","a","s","c","a","d","e">>, <<"c","a","s","e">>, <<"c","a","s","t">>, 
      <<"c","h","e","c","k">>, <<"c","o","l","l","a","t","e">>, <<"c","o","l","u","m","n">>, 
      <<"c","o","m","m","i","t">>, <<"c","o","n","f","l","i","c","t">>, 
      <<"c","o","n","s","t","r","a","i","n","t">>, <<"c","r","e","a","t","e">>, 
      <<"c","r","o","s","s">>, <<"c","u","r","r","e","n","t">>, 
      <<"c","u","r","r","e","n","t","_","d","a","t","e">>, 
      <<"c","u","r","r","e","n","t","_","t","i","m","e">>, 
      <<"c","u","r","r","e","n","t","_","t","i","m","e","s","t","a","m","p">>, 
      <<"d","a","t","a","b","a","s","e">>, <<"d","e","f","a","u","l","t">>, 
      <<"d","e","f","e","r","r","a","b","l","e">>, <<"d","e","f","e","r","r","e","d">>, 
      <<"d","e","l","e","t","e">>, <<"d","e","s","c">>, <<"d","e","t","a","c","h">>, 
      <<"d","i","s","t","i","n","c","t">>, <<"d","r","o","p">>, <<"e","a","c","h">>, 
      <<"e","l","s","e">>, <<"e","n","d">>, <<"e","s","c","a","p","e">>, 
      <<"e","x","c","e","p","t">>, <<"e","x","c","l","u","s","i","v","e">>, 
      <<"e","x","i","s","t","s">>, <<"e","x","p","l","a","i","n">>, <<"f","a","i","l">>, 
      <<"f","o","r">>, <<"f","o","r","e","i","g","n">>, <<"f","r","o","m">>, 
      <<"f","u","l","l">>, <<"g","l","o","b">>, <<"g","r","o","u","p">>, 
      <<"h","a","v","i","n","g">>, <<"i","f">>, <<"i","g","n","o","r","e">>, 
      <<"i","m","m","e","d","i","a","t","e">>, <<"i","n">>, <<"i","n","d","e","x">>, 
      <<"i","n","d","e","x","e","d">>, <<"i","n","i","t","i","a","l","l","y">>, 
      <<"i","n","n","e","r">>, <<"i","n","s","e","r","t">>, <<"i","n","s","t","e","a","d">>, 
      <<"i","n","t","e","r","s","e","c","t">>, <<"i","n","t","o">>, <<"i","s">>, 
      <<"i","s","n","u","l","l">>, <<"j","o","i","n">>, <<"k","e","y">>, <<"l","e","f","t">>, 
      <<"l","i","k","e">>, <<"l","i","m","i","t">>, <<"m","a","t","c","h">>, 
      <<"n","a","t","u","r","a","l">>, <<"n","o">>, <<"n","o","t">>, 
      <<"n","o","t","n","u","l","l">>, <<"n","u","l","l">>, <<"o","f">>, 
      <<"o","f","f","s","e","t">>, <<"o","n">>, <<"o","r">>, <<"o","r","d","e","r">>, 
      <<"o","u","t","e","r">>, <<"p","l","a","n">>, <<"p","r","a","g","m","a">>, 
      <<"p","r","i","m","a","r","y">>, <<"q","u","e","r","y">>, <<"r","a","i","s","e">>, 
      <<"r","e","c","u","r","s","i","v","e">>, <<"r","e","f","e","r","e","n","c","e","s">>, 
      <<"r","e","g","e","x","p">>, <<"r","e","i","n","d","e","x">>, 
      <<"r","e","l","e","a","s","e">>, <<"r","e","n","a","m","e">>, 
      <<"r","e","p","l","a","c","e">>, <<"r","e","s","t","r","i","c","t">>, 
      <<"r","i","g","h","t">>, <<"r","o","l","l","b","a","c","k">>, <<"r","o","w">>, 
      <<"s","a","v","e","p","o","i","n","t">>, <<"s","e","l","e","c","t">>, <<"s","e","t">>, 
      <<"t","a","b","l","e">>, <<"t","e","m","p">>, <<"t","e","m","p","o","r","a","r","y">>, 
      <<"t","h","e","n">>, <<"t","o">>, <<"t","r","a","n","s","a","c","t","i","o","n">>, 
      <<"t","r","i","g","g","e","r">>, <<"t","y","p","e">>, <<"u","n","i","o","n">>, 
      <<"u","n","i","q","u","e">>, <<"u","p","d","a","t","e">>, <<"u","s","i","n","g">>, 
      <<"v","a","c","u","u","m">>, <<"v","a","l","u","e","s">>, <<"v","i","e","w">>, 
      <<"v","i","r","t","u","a","l">>, <<"w","h","e","n">>, <<"w","h","e","r","e">>, 
      <<"w","i","t","h">>, <<"w","i","t","h","o","u","t">> }

\* _sanitize_name: every non-alphanumeric character becomes "_"; a result that
\* is a reserved keyword, compared in lower case, gets a "_" prefix.
_sanitize_name(name) ==
    LET sanitized == [i \in 1..Len(name) |-> IF IsAlnum(name[i]) THEN name[i] ELSE "_"]
    IN  IF Lower(sanitized) \in reserved_keywords
        THEN <<"_">> \o sanitized
        ELSE sanitized

Sep == <<"_","_">>
IdSuffix == <<"_","i","d">>
RowId == <<"r","o","w","_","_","i","d">>

\* f"{table_name}__{column_name}"
ChildPath(table_name, column_name) == table_name \o Sep \o column_name

\* f"{parent_table}_id"
ParentRefCol(parent_table) == parent_table \o IdSuffix

\* str.split('__'): the pieces between the non-overlapping occurrences of
\* "__", found scanning from the left.
RECURSIVE SplitFrom(_, _, _)
SplitFrom(s, i, cur) ==
    IF i > Len(s) THEN <<cur>>
    ELSE IF i < Len(s) /\ s[i] = "_" /\ s[i+1] = "_"
         THEN <<cur>> \o SplitFrom(s, i + 2, <<>>)
         ELSE SplitFrom(s, i + 1, Append(cur, s[i]))

Split(s) == SplitFrom(s, 1, <<>>)

\* '__'.join(parts)
RECURSIVE Join(_)
Join(parts) ==
    IF Len(parts) = 0 THEN <<>>
    ELSE IF Len(parts) = 1 THEN parts[1]
    ELSE parts[1] \o Sep \o Join(Tail(parts))

\* '__'.join(table_name.split('__')[:-1])
WriterParentTable(table_name) ==
    LET parts == Split(table_name)
    IN  Join(SubSeq(parts, 1, Len(parts) - 1))

-----------------------------------------------------------------------------
(* JSON values: [t |-> tag, v |-> payload].  Scalars carry a number (the   *)
(* truth value, the integer, the name of a real or of a string); an object *)
(* carries its fields <<key, value>> in document order, an array its       *)
(* elements.                                                               *)

VNull      == [t |-> "null", v |-> 0]
VBool(b)   == [t |-> "bool", v |-> b]
VInt(n)    == [t |-> "int",  v |-> n]
VReal(n)   == [t |-> "real", v |-> n]    \* a non-integral number
VText(n)   == [t |-> "text", v |-> n]    \* a non-numeric string
VObj(fs)   == [t |-> "obj",  v |-> fs]
VArr(es)   == [t |-> "arr",  v |-> es]

IsDict(x) == x.t = "obj"
IsList(x) == x.t = "arr"

\* isinstance(x, bool), isinstance(x, int), isinstance(x, float): a bool is
\* an int as well
IsBool(x)  == x.t = "bool"
IsInt(x)   == x.t \in {"bool", "int"}
IsFloat(x) == x.t = "real"

\* _get_sqlite_type: the tests in the order of the code
_get_sqlite_type(value) ==
    IF IsBool(value) THEN "BOOLEAN"
    ELSE IF IsInt(value) THEN "INTEGER"
    ELSE IF IsFloat(value) THEN "REAL"
    ELSE IF IsDict(value) \/ IsList(value) THEN "REFERENCE"
    ELSE "TEXT"

\* a skip rule that does not look at the first element: every non-empty
\* array would be taken for an array of objects (C6 fails under it)
IsNonEmptyArray(value) == IsList(value) /\ Len(value.v) > 0

\* isinstance(value, list) and value and isinstance(value[0], dict)
IsObjectArray(value) == IsList(value) /\ Len(value.v) > 0 /\ IsDict(value.v[1])

-----------------------------------------------------------------------------
(* The storage engine (sqlite3), as far as the converter uses it.          *)
(* db maps a table name to [cols, rows, seq]: cols maps a column name to   *)
(* its declared type, rows is the sequence of rows (column -> value), seq  *)
(* is the AUTOINCREMENT counter.  The engine compares identifiers without  *)
(* regard to case, so tables and columns are keyed by lower-cased names.   *)

\* words the engine does not accept as a bare identifier
EngineKeywords ==
    { <<"a","d","d">>, <<"a","l","l">>, <<"a","l","t","e","r">>, <<"a","n","d">>, 
      <<"a","s">>, <<"a","u","t","o","i","n","c","r","e","m","e","n","t">>, 
      <<"b","e","t","w","e","e","n">>, <<"c","a","s","e">>, <<"c","h","e","c","k">>, 
      <<"c","o","l","l","a","t","e">>, <<"c","o","m","m","i","t">>, 
      <<"c","o","n","s","t","r","a","i","n","t">>, <<"c","r","e","a","t","e">>, 
      <<"d","e","f","a","u","l","t">>, <<"d","e","f","e","r","r","a","b","l","e">>, 
      <<"d","e","l","e","t","e">>, <<"d","i","s","t","i","n","c","t">>, <<"d","r","o","p">>, 
      <<"e","l","s","e">>, <<"e","s","c","a","p","e">>, <<"e","x","c","e","p","t">>, 
      <<"e","x","i","s","t","s">>, <<"f","o","r","e","i","g","n">>, <<"f","r","o","m">>, 
      <<"g","r","o","u","p">>, <<"h","a","v","i","n","g">>, <<"i","n">>, 
      <<"i","n","d","e","x">>, <<"i","n","s","e","r","t">>, 
      <<"i","n","t","e","r","s","e","c","t">>, <<"i","n","t","o">>, <<"i","s">>, 
      <<"i","s","n","u","l","l">>, <<"j","o","i","n">>, <<"l","i","m","i","t">>, 
      <<"n","o","t">>, <<"n","o","t","h","i","n","g">>, <<"n","o","t","n","u","l","l">>, 
      <<"n","u","l","l">>, <<"o","n">>, <<"o","r">>, <<"o","r","d","e","r">>, 
      <<"p","r","i","m","a","r","y">>, <<"r","e","f","e","r","e","n","c","e","s">>, 
      <<"r","e","t","u","r","n","i","n","g">>, <<"s","e","l","e","c","t">>, <<"s","e","t">>, 
      <<"t","a","b","l","e">>, <<"t","h","e","n">>, <<"t","o">>, 
      <<"t","r","a","n","s","a","c","t","i","o","n">>, <<"u","n","i","o","n">>, 
      <<"u","n","i","q","u","e">>, <<"u","p","d","a","t","e">>, <<"u","s","i","n","g">>, 
      <<"v","a","l","u","e","s">>, <<"w","h","e","n">>, <<"w","h","e","r","e">> }

\* a bare identifier the engine's parser accepts; the names the converter
\* builds consist of letters, digits and "_" only
ValidIdent(name) ==
    /\ Len(name) > 0
    /\ name[1] \notin Digits
    /\ Lower(name) \notin EngineKeywords

\* the names of a statement are all accepted
ValidIdents(names) == \A i \in DOMAIN names : ValidIdent(names[i])

HasTable(d, name) == Lower(name) \in DOMAIN d

HasColumn(d, table, col) ==
    HasTable(d, table) /\ Lower(col) \in DOMAIN d[Lower(table)].cols

\* CREATE TABLE IF NOT EXISTS name (columns); columns are <<name, type>>
CreateTable(d, name, columns) ==
    IF ~ValidIdents(<<name>> \o [i \in DOMAIN columns |-> columns[i][1]])
    THEN [status |-> "syntax", db |-> d]
    ELSE IF HasTable(d, name)
    THEN [status |-> "ok", db |-> d]
    ELSE IF \E i, j \in DOMAIN columns : i # j /\ Lower(columns[i][1]) = Lower(columns[j][1])
    THEN [status |-> "duplicate", db |-> d]
    ELSE LET names == {Lower(columns[i][1]) : i \in DOMAIN columns}
             typeOf(c) == columns[CHOOSE i \in DOMAIN columns : Lower(columns[i][1]) = c][2]
             tbl == [cols |-> [c \in names |-> typeOf(c)], rows |-> <<>>, seq |-> 0]
         IN  [status |-> "ok", db |-> (Lower(name) :> tbl) @@ d]

\* an engine that redeclares a column that exists instead of refusing the
\* statement (C10 fails under it)
AddColumnRetyping(d, table, col, type) ==
    IF ~ValidIdents(<<table, col>>)
    THEN [status |-> "syntax", db |-> d]
    ELSE IF ~HasTable(d, table)
    THEN [status |-> "no_table", db |-> d]
    ELSE [status |-> "ok",
          db |-> [d EXCEPT ![Lower(table)].cols = (Lower(col) :> type) @@ @]]

\* ALTER TABLE table ADD COLUMN col type
AddColumn(d, table, col, type) ==
    IF ~ValidIdents(<<table, col>>)
    THEN [status |-> "syntax", db |-> d]
    ELSE IF ~HasTable(d, table)
    THEN [status |-> "no_table", db |-> d]
    ELSE IF HasColumn(d, table, col)
    THEN [status |-> "duplicate", db |-> d]
    ELSE LET t == Lower(table)
             cols == (Lower(col) :> type) @@ d[t].cols
         IN  [status |-> "ok", db |-> [d EXCEPT ![t].cols = cols]]

\* the sqlite3 module binds True/False as the integers 1/0
Bind(x) == IF x.t = "bool" THEN VInt(x.v) ELSE x

\* INSERT INTO table (columns) VALUES (values); no column at all stands for
\* INSERT INTO table DEFAULT VALUES.  A column named twice takes the value
\* of its first occurrence.  row__id is INTEGER PRIMARY KEY AUTOINCREMENT:
\* NULL or absent draws the next id, an integer is taken as the id and must
\* be unused, anything else is a datatype mismatch.  status names the error.
InsertRow(d, table, columns, values) ==
    LET t == Lower(table)
        fail(why) == [status |-> why, db |-> d, id |-> 0]
        given == {Lower(columns[i]) : i \in DOMAIN columns}
        valueOf(c) ==
            Bind(values[CHOOSE i \in DOMAIN columns :
                    /\ Lower(columns[i]) = c
                    /\ \A j \in 1..(i-1) : Lower(columns[j]) # c])
        explicit == RowId \in given /\ valueOf(RowId).t # "null"
    IN  IF ~ValidIdents(<<table>> \o columns)
        THEN fail("syntax")
        ELSE IF ~HasTable(d, table)
        THEN fail("no_table")
        ELSE IF \E c \in given : c \notin DOMAIN d[t].cols
        THEN fail("no_column")
        ELSE IF explicit /\ valueOf(RowId).t # "int"
        THEN fail("mismatch")
        ELSE IF explicit /\ \E k \in DOMAIN d[t].rows : d[t].rows[k][RowId] = valueOf(RowId)
        THEN fail("unique")
        ELSE LET id == IF explicit THEN valueOf(RowId).v ELSE d[t].seq + 1
                 row == [c \in given \cup {RowId} |->
                            IF c = RowId THEN VInt(id) ELSE valueOf(c)]
                 seq == IF id > d[t].seq THEN id ELSE d[t].seq
             IN  [status |-> "ok",
                  db |-> [d EXCEPT ![t].rows = Append(@, row), ![t].seq = seq],
                  id |-> id]

\* the converter is built with the default root table name
RootName == <<"r","o","o","t">>

\* self.root_table
root_table == _sanitize_name(RootName)

-----------------------------------------------------------------------------
(* The schema registry *)

\* an entry of the ddl history: a CREATE TABLE (op "create") of table with
\* the parent-reference column of parent, or an ADD COLUMN (op "add") of col
\* with type, decided from val; status is the engine's answer; path is the
\* sequence of column names from the root document to the table
DdlCreate(table, parent, status, path) ==
    [op |-> "create", table |-> table, col |-> <<>>, type |-> "", val |-> VNull,
     parent |-> parent, status |-> status, path |-> path]

DdlAdd(table, col, type, val, status, path) ==
    [op |-> "add", table |-> table, col |-> col, type |-> type, val |-> val,
     parent |-> <<>>, status |-> status, path |-> path]

RECURSIVE _create_table_if_not_exists(_, _, _, _)
RECURSIVE CreateFields(_, _, _, _)

\* The registry state st = [known, db, ok, ddl, path]: ok = FALSE once an
\* exception has been raised; ddl and path are history.

\* a scalar field: ALTER TABLE ... ADD COLUMN has answered a.  The column is
\* registered when the statement succeeded; a duplicate column is tolerated
\* and not registered; any other error is raised.
ColumnAdded(st, a, table_name, column_name, sqlite_type, value, fields, i) ==
    LET done == Append(st.ddl, DdlAdd(table_name, column_name, sqlite_type,
                                      value, a.status, st.path))
    IN  IF a.status = "ok"
        THEN CreateFields(
               [st EXCEPT !.db = a.db, !.ddl = done,
                          !.known[table_name] = @ \cup {column_name}],
               table_name, fields, i + 1)
        ELSE IF a.status = "duplicate"
        THEN CreateFields([st EXCEPT !.ddl = done], table_name, fields, i + 1)
        ELSE [st EXCEPT !.ddl = done, !.ok = FALSE]

\* a composite field: the recursive call has returned r
ChildCreated(st, r, table_name, fields, i) ==
    IF r.ok
    THEN CreateFields([r EXCEPT !.path = st.path], table_name, fields, i + 1)
    ELSE [r EXCEPT !.path = st.path]

\* the body of the loop over data.items() for field i, column_name being its
\* sanitized key: a field already known is skipped; an object, or an array
\* whose first element is an object, gets a child table from the object or
\* from that first element; any other array is skipped; a scalar is added
CreateField(st, table_name, column_name, value, fields, i) ==
    IF column_name \in st.known[table_name]
    THEN CreateFields(st, table_name, fields, i + 1)
    ELSE IF _get_sqlite_type(value) = "REFERENCE"
    THEN IF IsDict(value) \/ IsObjectArray(value)
         THEN ChildCreated(
                st,
                _create_table_if_not_exists(
                    [st EXCEPT !.path = Append(@, column_name)],
                    ChildPath(table_name, column_name),
                    IF IsDict(value) THEN value ELSE value.v[1],
                    table_name),
                table_name, fields, i)
         ELSE CreateFields(st, table_name, fields, i + 1)
    ELSE ColumnAdded(
           st,
           AddColumn(st.db, table_name, column_name, _get_sqlite_type(value)),
           table_name, column_name, _get_sqlite_type(value), value, fields, i)

\* the loop over data.items() of _create_table_if_not_exists, from field i
CreateFields(st, table_name, fields, i) ==
    IF i > Len(fields) THEN st
    ELSE CreateField(st, table_name, _sanitize_name(fields[i][1]), fields[i][2],
                     fields, i)

\* the columns of a new table: the row id and, under a parent, the reference
TableColumns(parent_table) ==
    <<<<RowId, "INTEGER PRIMARY KEY AUTOINCREMENT">>>> \o
    (IF Len(parent_table) > 0
     THEN <<<<ParentRefCol(parent_table), "INTEGER">>>>
     ELSE <<>>)

\* a table not yet known: it is registered, then CREATE TABLE has answered cr
TableRegistered(st, cr, table_name, parent_table) ==
    [st EXCEPT !.known = (table_name :> {}) @@ st.known,
               !.db = cr.db,
               !.ddl = Append(@, DdlCreate(table_name, parent_table,
                                           cr.status, st.path)),
               !.ok = (cr.status = "ok")]

\* if table_name not in self.known_tables: register it and create it
EnsureTable(st, table_name, parent_table) ==
    IF table_name \in DOMAIN st.known THEN st
    ELSE TableRegistered(
           st, CreateTable(st.db, table_name, TableColumns(parent_table)),
           table_name, parent_table)

\* the fields of data, once the table is there in st1
FieldsOf(st1, table_name, data) ==
    IF ~st1.ok THEN st1
    ELSE IF ~IsDict(data) THEN [st1 EXCEPT !.ok = FALSE]   \* data.items() raises
    ELSE CreateFields(st1, table_name, data.v, 1)

\* _create_table_if_not_exists(table_name, data, parent_table); parent_table
\* is <<>> for None; its first statement sanitizes the table name
_create_table_if_not_exists(st, table_path, data, parent_table) ==
    FieldsOf(EnsureTable(st, _sanitize_name(table_path), parent_table),
             _sanitize_name(table_path), data)

\* a top-level call of the schema pass on the current state
EnsureSchema(doc) ==
    _create_table_if_not_exists(
        [known |-> known_tables, db |-> db, ok |-> TRUE, ddl |-> ddl, path |-> <<>>],
        root_table, doc, <<>>)

-----------------------------------------------------------------------------
(* The record writer *)

\* d[k] = v on a dict kept as a sequence of <<key, value>> in insertion order
DictPut(d, k, v) ==
    IF \E i \in DOMAIN d : d[i][1] = k
    THEN [d EXCEPT ![CHOOSE i \in DOMAIN d : d[i][1] = k] = <<k, v>>]
    ELSE Append(d, <<k, v>>)

\* one field of the first loop of _insert_data: dicts and lists are nested
\* data, everything else is simple data
Separated(acc, column_name, value) ==
    IF IsDict(value) \/ IsList(value)
    THEN [acc EXCEPT !.nested = DictPut(@, column_name, value)]
    ELSE [acc EXCEPT !.simple = DictPut(@, column_name, value)]

\* the first loop of _insert_data: [simple, nested], keyed by column name
RECURSIVE Separate(_, _, _)
Separate(fields, i, acc) ==
    IF i > Len(fields) THEN acc
    ELSE Separate(fields, i + 1,
                  Separated(acc, _sanitize_name(fields[i][1]), fields[i][2]))

\* a logger.error entry: its kind, the record number n (0 if it has none),
\* the table and parent id it names, and the cause it quotes
LogEntry(kind, n, cause) ==
    [kind |-> kind, n |-> n, table |-> <<>>, parent |-> <<>>, cause |-> cause]

\* the "Error inserting data: {table_name} {parent_id} {e}" entry
InsertError(table_name, parent_id, cause) ==
    [kind |-> "insert", n |-> 0, table |-> table_name, parent |-> parent_id,
     cause |-> cause]

\* The writer state st = [db, ok, err, id, log, written, rec, path, caller]:
\* ok = FALSE when the call raised, with the cause in err; id is the
\* returned row id; written, rec, path and caller are history.

\* the except clause of _insert_data: log the error and raise it again
Raise(st, table_name, parent_id, cause) ==
    [st EXCEPT !.ok = FALSE, !.err = cause,
               !.log = Append(@, InsertError(table_name, parent_id, cause))]

\* the column list of the INSERT: the simple data, then the parent
\* reference; no simple data: the parent reference alone, or else no column
\* (DEFAULT VALUES)
InsertColumns(simple_data, parent_ref_col, parent_id) ==
    [i \in DOMAIN simple_data |-> simple_data[i][1]] \o
    (IF Len(parent_id) > 0 THEN <<parent_ref_col>> ELSE <<>>)

\* the values of the INSERT, in the order of InsertColumns
InsertValues(simple_data, parent_id) ==
    [i \in DOMAIN simple_data |-> simple_data[i][2]] \o
    (IF Len(parent_id) > 0 THEN <<VInt(parent_id[1])>> ELSE <<>>)

RECURSIVE _insert_data(_, _, _, _)
RECURSIVE InsertNested(_, _, _, _, _)
RECURSIVE InsertItems(_, _, _, _, _)

\* an item of an array has been inserted, giving r
ItemInserted(r, nested_table, items, i, row__id) ==
    IF r.ok THEN InsertItems(r, nested_table, items, i + 1, row__id) ELSE r

\* for item in value: self._insert_data(nested_table, item, row__id)
InsertItems(st, nested_table, items, i, row__id) ==
    IF i > Len(items) THEN st
    ELSE ItemInserted(_insert_data(st, nested_table, items[i], <<row__id>>),
                      nested_table, items, i, row__id)

\* entry i of the nested data has been handled, giving r
NestedInserted(st, r, table_name, nested, i, row__id) ==
    IF r.ok
    THEN InsertNested([r EXCEPT !.path = st.path, !.caller = st.caller],
                      table_name, nested, i + 1, row__id)
    ELSE [r EXCEPT !.path = st.path, !.caller = st.caller]

\* the loop over nested_data.items(), from entry i: an object is inserted
\* into the child table, an array whose first element is an object has each
\* of its items inserted, any other array is skipped.  st.path and st.caller
\* tell the calls below where they were made from.
InsertNested(st, table_name, nested, i, row__id) ==
    IF i > Len(nested) THEN st
    ELSE LET value == nested[i][2]
             nested_table == ChildPath(table_name, nested[i][1])
             down == [st EXCEPT !.path = Append(@, nested[i][1]),
                                !.caller = table_name]
         IN  NestedInserted(
               st,
               IF IsDict(value)
               THEN _insert_data(down, nested_table, value, <<row__id>>)
               ELSE IF IsObjectArray(value)
               THEN InsertItems(down, nested_table, value.v, 1, row__id)
               ELSE st,
               table_name, nested, i, row__id)

\* the nested data of a row have been handled, giving r: return the row id,
\* or log the exception that came up and raise it again
RowCompleted(r, table_name, parent_id, row__id) ==
    IF r.ok THEN [r EXCEPT !.id = row__id]
    ELSE Raise(r, table_name, parent_id, r.err)

\* the INSERT has answered ins: an error is logged and raised; otherwise the
\* row stays (nothing is ever taken back) and the nested data follow
RowInserted(st, ins, table_name, data, parent_id, nested_data) ==
    IF ins.status # "ok" THEN Raise(st, table_name, parent_id, ins.status)
    ELSE RowCompleted(
           InsertNested(
               [st EXCEPT !.db = ins.db,
                          !.written = Append(@, [table |-> table_name, id |-> ins.id,
                                                 doc |-> data, parent |-> parent_id,
                                                 rec |-> st.rec, path |-> st.path,
                                                 caller |-> st.caller])],
               table_name, nested_data, 1, ins.id),
           table_name, parent_id, ins.id)

\* the INSERT of the simple data parts.simple, the parent table being
\* derived from the table name
InsertSimple(st, parts, table_name, data, parent_id) ==
    RowInserted(
        st,
        InsertRow(st.db, table_name,
                  InsertColumns(parts.simple,
                                ParentRefCol(WriterParentTable(table_name)),
                                parent_id),
                  InsertValues(parts.simple, parent_id)),
        table_name, data, parent_id, parts.nested)

\* the try block of _insert_data on the sanitized table name
InsertDocument(st, table_name, data, parent_id) ==
    IF ~IsDict(data)
    THEN Raise(st, table_name, parent_id, "not_object")   \* data.items() raises
    ELSE InsertSimple(st, Separate(data.v, 1, [simple |-> <<>>, nested |-> <<>>]),
                      table_name, data, parent_id)

\* _insert_data(table_name, data, parent_id); parent_id is <<>> for None and
\* <<id>> otherwise; its first statement sanitizes the table name
_insert_data(st, table_path, data, parent_id) ==
    InsertDocument(st, _sanitize_name(table_path), data, parent_id)

\* a top-level call of the write pass, for record n, on the current state
WriteDocument(n, doc) ==
    _insert_data(
        [db |-> db, ok |-> TRUE, err |-> "", id |-> 0, log |-> log,
         written |-> written, rec |-> n, path |-> <<>>, caller |-> <<>>],
        root_table, doc, <<>>)

-----------------------------------------------------------------------------
(* The input file *)

\* a line (or an array element's text) that json cannot parse
Bad == [t |-> "bad", v |-> 0]

\* the records of the file: input.recs, input.times times over
FileRecords(inp) ==
    [j \in 1..(Len(inp.recs) * inp.times) |->
        inp.recs[((j - 1) % Len(inp.recs)) + 1]]

\* the first character of the text of a record
FirstCharOf(rec) ==
    IF IsDict(rec) THEN "{" ELSE IF IsList(rec) THEN "[" ELSE "?"

\* f.read(1): the first character of the file.  input.shape is "array" (one
\* JSON array holding the records) or "lines" (one record per line), the
\* records being input.recs taken input.times times;
\* input.ws says whether the file starts with a blank.
FirstChar(inp) ==
    IF inp.ws THEN " "
    ELSE IF inp.shape = "array" THEN "["
    ELSE IF Len(FileRecords(inp)) = 0 THEN ""
    ELSE FirstCharOf(FileRecords(inp)[1])

\* json.load(f) on the whole file: Bad when it raises JSONDecodeError.  A
\* lines file parses as one document only if it holds exactly one line.
JsonLoad(inp) ==
    IF inp.shape = "array"
    THEN IF \E i \in DOMAIN inp.recs : inp.recs[i] = Bad
         THEN Bad ELSE VArr(FileRecords(inp))
    ELSE IF Len(FileRecords(inp)) = 1 THEN inp.recs[1] ELSE Bad

\* the lines that iterating the file yields; an array file is one line
FileLines(inp) ==
    IF inp.shape = "lines" THEN FileRecords(inp) ELSE <<JsonLoad(inp)>>

-----------------------------------------------------------------------------
(* The run of process_file *)

\* commit after every 1000th record of the write pass
CommitEvery == 1000

EmptyMap == [x \in {} |-> {}]

\* the list that _process_json_file iterates
Data == JsonLoad(input).v

Lines == FileLines(input)

\* process_file: choose the format from the first character
ProcessFile ==
    /\ pc = "start"
    /\ pc' = IF FirstChar(input) = "[" THEN "json_load" ELSE "jl_schema"
    /\ idx' = 1
    /\ UNCHANGED <<input, known_tables, db, log, commits, pending, written, returned, ddl>>

\* _process_json_file: json.load and the check for a top-level array
JsonLoadFile ==
    /\ pc = "json_load"
    /\ LET data == JsonLoad(input)
       IN  IF data = Bad
           THEN /\ log' = Append(log, LogEntry("json_decode", 0, "decode"))
                /\ pc' = "raised"
           ELSE IF ~IsList(data)
           THEN /\ log' = Append(log, LogEntry("json_file", 0, "not_array"))
                /\ pc' = "raised"
           ELSE /\ log' = log
                /\ pc' = "json_schema"
    /\ UNCHANGED <<input, idx, known_tables, db, commits, pending, written, returned, ddl>>

\* the schema pass has handled a document, giving r
SchemaEnsured(r) ==
    /\ known_tables' = r.known
    /\ db' = r.db
    /\ ddl' = r.ddl

\* the except clauses of _process_json_file: log the exception and raise it
JsonSchemaOutcome(r) ==
    IF r.ok
    THEN /\ idx' = idx + 1
         /\ UNCHANGED <<pc, log>>
    ELSE /\ log' = Append(log, LogEntry("json_file", 0, "schema"))
         /\ pc' = "raised"
         /\ idx' = idx

\* _process_json_file, schema loop: one item; an exception ends the run
JsonSchemaItem(r) == SchemaEnsured(r) /\ JsonSchemaOutcome(r)

JsonSchemaStep ==
    /\ pc = "json_schema"
    /\ idx <= Len(Data)
    /\ JsonSchemaItem(EnsureSchema(Data[idx]))
    /\ UNCHANGED <<input, commits, pending, written, returned>>

\* an insert loop that begins while documents are left to the schema loop
\* (C16 fails under it)
JsonSchemaDoneEarly ==
    /\ pc = "json_schema"
    /\ pc' = "json_write"
    /\ idx' = 1
    /\ UNCHANGED <<input, known_tables, db, log, commits, pending, written, returned, ddl>>

\* _process_json_file: the schema loop is over, the insert loop begins
JsonSchemaDone ==
    /\ pc = "json_schema"
    /\ idx > Len(Data)
    /\ pc' = "json_write"
    /\ idx' = 1
    /\ UNCHANGED <<input, known_tables, db, log, commits, pending, written, returned, ddl>>

\* the body of either insert loop for record n holding doc: _insert_data in
\* its try, the error entry of the loop, and the commit every CommitEvery
\* a loop that commits after every record (C13 fails under it)
RecordWrittenCommitEach(r, n, errkind) ==
    /\ db' = r.db
    /\ written' = r.written
    /\ log' = IF r.ok THEN r.log ELSE Append(r.log, LogEntry(errkind, n, r.err))
    /\ returned' = IF r.ok THEN returned \cup {n} ELSE returned
    /\ commits' = commits + 1
    /\ pending' = 0

RecordWritten(r, n, errkind) ==
    /\ db' = r.db
    /\ written' = r.written
    /\ log' = IF r.ok THEN r.log ELSE Append(r.log, LogEntry(errkind, n, r.err))
    /\ returned' = IF r.ok THEN returned \cup {n} ELSE returned
    /\ IF n % CommitEvery = 0
       THEN commits' = commits + 1 /\ pending' = 0
       ELSE commits' = commits /\ pending' = pending + 1

WriteRecord(n, doc, errkind) == RecordWritten(WriteDocument(n, doc), n, errkind)

\* _process_json_file, insert loop: one item
JsonWriteStep ==
    /\ pc = "json_write"
    /\ idx <= Len(Data)
    /\ WriteRecord(idx, Data[idx], "item")
    /\ idx' = idx + 1
    /\ UNCHANGED <<input, pc, known_tables, ddl>>

\* _process_json_file: the final commit
JsonFinish ==
    /\ pc = "json_write"
    /\ idx > Len(Data)
    /\ commits' = commits + 1
    /\ pending' = 0
    /\ pc' = "done"
    /\ UNCHANGED <<input, idx, known_tables, db, log, written, returned, ddl>>

\* _process_jsonlines_file, schema loop: an exception of a line is logged
\* and the loop goes on
JlSchemaLine(r) ==
    /\ SchemaEnsured(r)
    /\ log' = IF r.ok THEN log
              ELSE Append(log, LogEntry("schema_line", idx, "schema"))

\* _process_jsonlines_file, schema loop: one line; every exception is logged
JlSchemaStep ==
    /\ pc = "jl_schema"
    /\ idx <= Len(Lines)
    /\ IF Lines[idx] = Bad
       THEN /\ log' = Append(log, LogEntry("schema_decode", idx, "decode"))
            /\ UNCHANGED <<known_tables, db, ddl>>
       ELSE JlSchemaLine(EnsureSchema(Lines[idx]))
    /\ idx' = idx + 1
    /\ UNCHANGED <<input, pc, commits, pending, written, returned>>

\* _process_jsonlines_file: the schema loop is over, the file is reopened
JlSchemaDone ==
    /\ pc = "jl_schema"
    /\ idx > Len(Lines)
    /\ pc' = "jl_write"
    /\ idx' = 1
    /\ UNCHANGED <<input, known_tables, db, log, commits, pending, written, returned, ddl>>

\* _process_jsonlines_file, insert loop: one line
JlWriteStep ==
    /\ pc = "jl_write"
    /\ idx <= Len(Lines)
    /\ IF Lines[idx] = Bad
       THEN /\ log' = Append(log, LogEntry("insert_decode", idx, "decode"))
            /\ IF idx % CommitEvery = 0
               THEN commits' = commits + 1 /\ pending' = 0
               ELSE commits' = commits /\ pending' = pending + 1
            /\ UNCHANGED <<db, written, returned>>
       ELSE WriteRecord(idx, Lines[idx], "insert_line")
    /\ idx' = idx + 1
    /\ UNCHANGED <<input, pc, known_tables, ddl>>

\* _process_jsonlines_file: the final commit
JlFinish ==
    /\ pc = "jl_write"
    /\ idx > Len(Lines)
    /\ commits' = commits + 1
    /\ pending' = 0
    /\ pc' = "done"
    /\ UNCHANGED <<input, idx, known_tables, db, log, written, returned, ddl>>

\* main: converter.close() in the finally clause; an exception of
\* process_file then leaves main
Close ==
    /\ pc \in {"done", "raised"}
    /\ pc' = IF pc = "done" THEN "closed" ELSE "crashed"
    /\ UNCHANGED <<input, idx, known_tables, db, log, commits, pending, written, returned, ddl>>

Next ==
    \/ ProcessFile
    \/ JsonLoadFile
    \/ JsonSchemaStep
    \/ JsonSchemaDone
    \/ JsonWriteStep
    \/ JsonFinish
    \/ JlSchemaStep
    \/ JlSchemaDone
    \/ JlWriteStep
    \/ JlFinish
    \/ Close

-----------------------------------------------------------------------------
(* The inputs of the model *)

KA == <<"a">>
KB == <<"b">>
KAB == <<"a","_","_","b">>
KATrail == <<"a","_">>
KDash == <<"a","-","b">>
KSelect == <<"s","e","l","e","c","t">>
KUpper == <<"A">>
KDigit == <<"1">>
KRootId == <<"r","o","o","t","_","i","d">>

O1(k, v) == VObj(<<<<k, v>>>>)
O2(k1, v1, k2, v2) == VObj(<<<<k1, v1>>, <<k2, v2>>>>)

Leaf == O1(KB, VInt(1))

\* the documents: scalars of every type, nested objects and arrays, keys
\* that need sanitizing or collide with the converter's own names
Documents ==
    { O1(KA, VInt(1)),                       \* {"a": 1}
      O1(KA, VText(1)),                      \* {"a": "s"}
      O1(KA, VBool(1)),                      \* {"a": true}
      O1(KA, VReal(1)),                      \* {"a": 1.5}
      O1(KA, VNull),                         \* {"a": null}
      O1(KA, Leaf),                         \* {"a": {"b": 1}}
      O1(KA, VObj(<<>>)),                    \* {"a": {}}
      O1(KA, VArr(<<Leaf, Leaf>>)),          \* {"a": [{"b": 1}, {"b": 1}]}
      O1(KA, VArr(<<Leaf, O2(KB, VInt(1), KA, VInt(2))>>)),
                                            \* {"a": [{"b": 1}, {"b": 1, "a": 2}]}
      O1(KA, VArr(<<>>)),                    \* {"a": []}
      O1(KA, VArr(<<VInt(1), Leaf>>)),        \* {"a": [1, {"b": 1}]}
      O1(KA, VArr(<<Leaf, VInt(1)>>)),        \* {"a": [{"b": 1}, 1]}
      O1(KAB, Leaf),                        \* {"a__b": {"b": 1}}
      O1(KA, O1(KB, Leaf)),                 \* {"a": {"b": {"b": 1}}}
      VObj(<<>>),                            \* {}
      O1(KATrail, O1(KB, VObj(<<>>))),       \* {"a_": {"b": {}}}
      O2(KB, VInt(1), KA, VArr(<<>>)),        \* {"b": 1, "a": []}
      O1(KDash, VInt(1)),                    \* {"a-b": 1}
      O1(KSelect, VInt(1)),                  \* {"select": 1}
      O1(KDigit, VInt(1)),                   \* {"1": 1}
      O1(RowId, VInt(2)),                    \* {"row__id": 2}
      O1(KA, O1(KRootId, VInt(7))),          \* {"a": {"root_id": 7}}
      O1(KUpper, VText(1)) }                 \* {"A": "s"}

\* what a line or an array element can be: a document, a JSON value that is
\* no object, or text that does not parse
Records == Documents \cup { VInt(5), VArr(<<O1(KA, VInt(1))>>), Bad }

RECURSIVE SeqsUpTo(_, _)
SeqsUpTo(S, n) ==
    IF n = 0 THEN {<<>>}
    ELSE LET shorter == SeqsUpTo(S, n - 1)
         IN  shorter \cup {Append(s, x) : s \in {q \in shorter : Len(q) = n - 1}, x \in S}

\* the records of the files that start with a blank
BlankRecords == { O1(KA, VInt(1)), Bad }

\* the files: any records without a leading blank; with a leading blank, an
\* array file or a lines file of at least one line
Inputs ==
    [shape : {"array", "lines"}, ws : {FALSE}, times : {1},
     recs : SeqsUpTo(Records, MaxRecs)]
    \cup
    {inp \in [shape : {"array", "lines"}, ws : {TRUE}, times : {1},
              recs : SeqsUpTo(BlankRecords, MaxRecs)] :
        inp.shape = "lines" => Len(inp.recs) > 0}

\* the converter as __init__ leaves it, on the database d
ConstructedOn(d) ==
    /\ pc = "start"
    /\ idx = 1
    /\ known_tables = EmptyMap
    /\ db = d
    /\ log = <<>>
    /\ commits = 0
    /\ pending = 0
    /\ written = <<>>
    /\ returned = {}
    /\ ddl = <<>>

\* the converter on a new database
Constructed == ConstructedOn(EmptyMap)

Init == input \in Inputs /\ Constructed

Spec == Init /\ [][Next]_vars

\* Long inputs, for the commits of the write pass: files of one record
\* repeated, as many as a whole number of commit batches and one more.  The
\* record is the empty document, a value that is no document
\* (its write fails) or text that does not parse.
LongRecords == { VObj(<<>>), VInt(5), Bad }

LongLengths ==
    {k * CommitEvery + d : k \in 1..MaxBatches, d \in {0, 1}}

LongInputs ==
    [shape : {"array", "lines"}, ws : {FALSE}, times : LongLengths,
     recs : {<<r>> : r \in LongRecords}]

InitLong == input \in LongInputs /\ Constructed

SpecLong == InitLong /\ [][Next]_vars

\* Runs on the database of an earlier run.  The earlier run read the lines
\* file of the documents input.prior with the same root table; its two
\* passes are computed here as the actions above take them, an exception of
\* a line being logged and the loop going on.
RECURSIVE SchemaPassOver(_, _, _)
SchemaPassOver(st, docs, i) ==
    IF i > Len(docs) THEN st
    ELSE SchemaPassOver(
           _create_table_if_not_exists([st EXCEPT !.ok = TRUE], root_table,
                                       docs[i], <<>>),
           docs, i + 1)

RECURSIVE WritePassOver(_, _, _)
WritePassOver(st, docs, i) ==
    IF i > Len(docs) THEN st
    ELSE WritePassOver(
           _insert_data([st EXCEPT !.ok = TRUE, !.rec = i], root_table,
                        docs[i], <<>>),
           docs, i + 1)

\* the storage that a run over docs leaves on a new database: the write
\* pass on the storage that the schema pass has made
StorageAfter(docs) ==
    LET schema == SchemaPassOver([known |-> EmptyMap, db |-> EmptyMap, ok |-> TRUE,
                                  ddl |-> <<>>, path |-> <<>>], docs, 1)
    IN  WritePassOver([db |-> schema.db, ok |-> TRUE, err |-> "", id |-> 0,
                       log |-> <<>>, written |-> <<>>, rec |-> 0, path |-> <<>>,
                       caller |-> <<>>], docs, 1).db

\* the documents of the earlier run
PriorDocuments ==
    { O1(KA, VInt(1)),                       \* {"a": 1}
      O1(KA, Leaf),                         \* {"a": {"b": 1}}
      O2(KB, VInt(1), KA, VArr(<<>>)),        \* {"b": 1, "a": []}
      O1(KA, VArr(<<Leaf, Leaf>>)) }         \* {"a": [{"b": 1}, {"b": 1}]}

\* the records of the run on the database of the earlier one
RerunRecords ==
    { O1(KA, VInt(1)),                       \* {"a": 1}
      O1(KA, VText(1)),                      \* {"a": "s"}
      O1(KA, Leaf),                         \* {"a": {"b": 1}}
      O2(KB, VInt(1), KA, VArr(<<>>)),        \* {"b": 1, "a": []}
      O1(KA, VArr(<<Leaf, O2(KB, VInt(1), KA, VInt(2))>>)),
                                            \* {"a": [{"b": 1}, {"b": 1, "a": 2}]}
      O1(KUpper, VText(1)),                  \* {"A": "s"}
      O1(KDigit, VInt(1)),                   \* {"1": 1}
      VInt(5),                              \* 5
      Bad }                                 \* text that does not parse

\* Runs that give names to _sanitize_name: every record is a document of one
\* scalar field, whose key is the name.
Names ==
    { <<"s","e","l","e","c","t">>,                  \* select
      <<"S","e","l","e","c","t">>,                  \* Select
      <<"_","s","e","l","e","c","t">>,              \* _select
      <<"a","-","b">>,                              \* a-b
      <<"a"," ","b">>,                              \* a b
      <<"a","b","o","r","t">>,                      \* abort
      <<"a","s">>,                                  \* as
      <<"r","e","t","u","r","n","i","n","g">>,      \* returning
      <<"N","o","t","h","i","n","g">>,              \* Nothing
      <<"a">> }                                     \* a

NameInputs ==
    [shape : {"array", "lines"}, ws : {FALSE}, times : {1},
     recs : SeqsUpTo({O1(name, VInt(1)) : name \in Names}, MaxRecs)]

InitNames == input \in NameInputs /\ Constructed

SpecNames == InitNames /\ [][Next]_vars

RerunInputs ==
    [shape : {"array", "lines"}, ws : {FALSE}, times : {1},
     recs : SeqsUpTo(RerunRecords, MaxRecs),
     prior : SeqsUpTo(PriorDocuments, MaxPrior) \ {<<>>}]

InitRerun ==
    \E inp \in RerunInputs :
        /\ input = inp
        /\ ConstructedOn(StorageAfter(inp.prior))

SpecRerun == InitRerun /\ [][Next]_vars

-----------------------------------------------------------------------------
(* Observations used by the properties *)

\* the run has gone through its final commit
Completed == pc \in {"done", "closed"}

\* the rows of a table of the storage engine (none if it does not exist)
RowsOf(table) == IF HasTable(db, table) THEN db[Lower(table)].rows ELSE <<>>

\* the number of rows of table whose column col holds the integer id
RowsReferring(table, col, id) ==
    Cardinality({k \in DOMAIN RowsOf(table) :
                    /\ Lower(col) \in DOMAIN RowsOf(table)[k]
                    /\ RowsOf(table)[k][Lower(col)] = VInt(id)})

\* the composite fields of a written document, as the writer keys them
NestedOf(doc) == Separate(doc.v, 1, [simple |-> <<>>, nested |-> <<>>]).nested

\* a JSON value that is a scalar
IsScalar(x) == x.t \in {"null", "bool", "int", "real", "text"}

\* a document that must load whatever came before it: scalar fields only,
\* under keys that sanitize to ordinary column names
PlainDocument(rec) ==
    /\ IsDict(rec)
    /\ \A i \in DOMAIN rec.v :
          /\ IsScalar(rec.v[i][2])
          /\ ValidIdent(_sanitize_name(rec.v[i][1]))
          /\ Lower(_sanitize_name(rec.v[i][1])) # RowId

-----------------------------------------------------------------------------
(* C1 *)

\* C1: when process_file has completed, the root table holds as many rows as
\* there are records whose top-level _insert_data returned without raising.
C1_RootRowsEqualReturned ==
    pc = "done" => Len(RowsOf(root_table)) = Cardinality(returned)

-----------------------------------------------------------------------------
(* C2 *)

\* a record that is not a JSON object; text that does not parse counts for a
\* lines file only (an array file that does not parse is no array at all)
MalformedRecord(rec) ==
    IF rec = Bad THEN input.shape = "lines" ELSE ~IsDict(rec)

\* exactly one malformed record amid plain documents
OneMalformedRecord ==
    \E i \in DOMAIN input.recs :
        /\ MalformedRecord(input.recs[i])
        /\ \A j \in DOMAIN input.recs : j # i => PlainDocument(input.recs[j])

\* C2: one malformed record amid valid ones never ends the run early, and
\* once the run has completed every valid record has its root row.
C2_MalformedRecordIsolated ==
    OneMalformedRecord =>
        /\ pc \notin {"raised", "crashed"}
        /\ Completed =>
              \A j \in DOMAIN input.recs :
                  PlainDocument(input.recs[j]) =>
                      \E k \in DOMAIN written :
                          /\ written[k].table = root_table
                          /\ written[k].doc = input.recs[j]

-----------------------------------------------------------------------------
(* C3 *)

\* C3: the write pass never targets a table that storage does not have: no
\* insert fails with "no such table".
C3_WriteTargetsExist ==
    \A i \in DOMAIN log : log[i].kind = "insert" => log[i].cause # "no_table"

-----------------------------------------------------------------------------
(* C4 *)

\* an array of N >= 1 objects
IsArrayOfObjects(x) ==
    IsList(x) /\ Len(x.v) > 0 /\ \A i \in DOMAIN x.v : IsDict(x.v[i])

\* C4: for every written row whose document holds an array of N objects, the
\* child table of that field holds exactly N rows referring to that row.
C4_ArrayYieldsNRows ==
    \A k \in DOMAIN written :
        \A i \in DOMAIN NestedOf(written[k].doc) :
            LET e == written[k]
                field == NestedOf(e.doc)[i]
            IN  IsArrayOfObjects(field[2]) =>
                    RowsReferring(ChildPath(e.table, field[1]),
                                  ParentRefCol(e.table), e.id) = Len(field[2].v)

-----------------------------------------------------------------------------
(* C5 *)

\* C5: for every written row whose document holds a nested object, the child
\* table of that field holds exactly one row referring to that row.
C5_ObjectYieldsOneRow ==
    \A k \in DOMAIN written :
        \A i \in DOMAIN NestedOf(written[k].doc) :
            LET e == written[k]
                field == NestedOf(e.doc)[i]
            IN  IsDict(field[2]) =>
                    RowsReferring(ChildPath(e.table, field[1]),
                                  ParentRefCol(e.table), e.id) = 1

-----------------------------------------------------------------------------
(* C6 *)

\* the records that the run iterates: the elements of the array, or the lines
Processed ==
    IF FirstChar(input) = "["
    THEN IF IsList(JsonLoad(input)) THEN Data ELSE <<>>
    ELSE Lines

\* the storage column that a key of a document stands for
FieldColumn(key) == Lower(_sanitize_name(key))

\* an empty array, or an array whose first element is not an object
SkippedValue(x) == IsList(x) /\ (Len(x.v) = 0 \/ ~IsDict(x.v[1]))

\* the fields <<record, position>> of the root documents of the input
AllRootFields ==
    UNION {{<<j, i>> : i \in DOMAIN Processed[j].v} :
              j \in {m \in DOMAIN Processed : IsDict(Processed[m])}}

\* those that stand for column c
RootFields(c) ==
    {f \in AllRootFields : FieldColumn(Processed[f[1]].v[f[2]][1]) = c}

\* c is a field of the root documents whose value is a skipped array in
\* every document that has it
SkippedField(c) ==
    /\ RootFields(c) # {}
    /\ \A f \in RootFields(c) : SkippedValue(Processed[f[1]].v[f[2]][2])

RootColumns == {FieldColumn(Processed[f[1]].v[f[2]][1]) : f \in AllRootFields}

\* doc without its fields that stand for column c
Strip(doc, c) == VObj(SelectSeq(doc.v, LAMBDA f : FieldColumn(f[1]) # c))

\* the record that the current pass visits next, if it is a document
NextDocument ==
    IF idx \in DOMAIN Processed /\ IsDict(Processed[idx])
    THEN {Processed[idx]} ELSE {}

\* C6: a field that is an empty array or an array not starting with an
\* object in every document gets no child table, no column and no child row,
\* in the registry as in storage; the schema registry and the writer treat a
\* document holding it exactly as they treat the document without it, so
\* that a document with otherwise plain fields is written with them.
C6_SkippedArrayLeavesNoTrace ==
    \A c \in RootColumns :
        SkippedField(c) =>
            /\ ~HasTable(db, ChildPath(root_table, c))
            /\ c # RowId => ~HasColumn(db, root_table, c)
            /\ \A t \in DOMAIN known_tables :
                  /\ Lower(t) # Lower(ChildPath(root_table, c))
                  /\ \A k \in known_tables[t] : t = root_table => Lower(k) # c
            /\ \A i \in DOMAIN ddl :
                  ~(Len(ddl[i].path) > 0 /\ Lower(ddl[i].path[1]) = c)
            /\ \A k \in DOMAIN written :
                  ~(Len(written[k].path) > 0 /\ Lower(written[k].path[1]) = c)
            /\ \A doc \in NextDocument :
                  /\ pc \in {"json_schema", "jl_schema"} =>
                        EnsureSchema(doc) = EnsureSchema(Strip(doc, c))
                  /\ pc \in {"json_write", "jl_write"} =>
                        LET with == WriteDocument(idx, doc)
                            without == WriteDocument(idx, Strip(doc, c))
                        IN  /\ with.db = without.db
                            /\ with.ok = without.ok
                            /\ with.log = without.log
            /\ Completed =>
                  \A j \in DOMAIN Processed :
                      (IsDict(Processed[j]) /\ PlainDocument(Strip(Processed[j], c))) =>
                          /\ j \in returned
                          /\ \E k \in DOMAIN written :
                                /\ written[k].rec = j
                                /\ written[k].table = root_table

\* C6 witness: a completed run whose document {"b": 1, "a": []} was written
\* as a root row holding b, the array field having been skipped
C6_Witness ==
    /\ pc = "done"
    /\ SkippedField(<<"a">>)
    /\ \E k \in DOMAIN written :
          /\ written[k].table = root_table
          /\ \E i \in DOMAIN written[k].doc.v :
                /\ written[k].doc.v[i][1] = <<"a">>
                /\ SkippedValue(written[k].doc.v[i][2])
          /\ \E j \in DOMAIN RowsOf(root_table) :
                /\ RowsOf(root_table)[j][RowId] = VInt(written[k].id)
                /\ <<"b">> \in DOMAIN RowsOf(root_table)[j]
                /\ RowsOf(root_table)[j][<<"b">>] = VInt(1)

-----------------------------------------------------------------------------
(* C7 *)

\* C7: every row written with a parent id holds that id in the
\* parent-reference column named after the table of the row it was produced
\* from, and that table holds a row with that id.
C7_ParentReferenceIsProducer ==
    \A k \in DOMAIN written :
        LET e == written[k]
        IN  Len(e.parent) > 0 =>
                /\ \E j \in DOMAIN RowsOf(e.table) :
                      LET row == RowsOf(e.table)[j]
                          ref == Lower(ParentRefCol(e.caller))
                      IN  /\ row[RowId] = VInt(e.id)
                          /\ ref \in DOMAIN row
                          /\ row[ref] = VInt(e.parent[1])
                /\ \E j \in DOMAIN RowsOf(e.caller) :
                      RowsOf(e.caller)[j][RowId] = VInt(e.parent[1])

-----------------------------------------------------------------------------
(* C8 *)

\* C8: for every table that the registry created with a parent, the parent
\* path that the writer derives from the table path is that parent.
C8_WriterDerivesRegistryParent ==
    \A i \in DOMAIN ddl :
        (ddl[i].op = "create" /\ Len(ddl[i].parent) > 0) =>
            WriterParentTable(ddl[i].table) = ddl[i].parent

-----------------------------------------------------------------------------
(* C9 *)

\* the <<table, path>> pairs of the schema pass and of the write pass
SchemaPlaces ==
    {<<ddl[i].table, ddl[i].path>> : i \in {j \in DOMAIN ddl : ddl[j].op = "create"}}

WritePlaces == {<<written[k].table, written[k].path>> : k \in DOMAIN written}

\* C9: a table path stands for one field path only, and a field path for
\* one table path, in the schema pass and the write pass alike.
C9_TablePathDeterminesFieldPath ==
    \A x, y \in SchemaPlaces \cup WritePlaces :
        (x[1] = y[1]) <=> (x[2] = y[2])

-----------------------------------------------------------------------------
(* C10 *)

\* the storage type of a scalar: boolean, integer, real, text (null is text)
ScalarType(x) ==
    CASE x.t = "bool" -> "BOOLEAN"
      [] x.t = "int"  -> "INTEGER"
      [] x.t = "real" -> "REAL"
      [] OTHER        -> "TEXT"

\* every ADD COLUMN that succeeded is the only one for its column, gave it
\* the type of the value it was decided from, and the column still has it
AddedColumnsKeepType ==
    \A i \in DOMAIN ddl :
        (ddl[i].op = "add" /\ ddl[i].status = "ok") =>
            /\ ddl[i].type = ScalarType(ddl[i].val)
            /\ HasColumn(db, ddl[i].table, ddl[i].col)
            /\ db[Lower(ddl[i].table)].cols[Lower(ddl[i].col)] = ddl[i].type
            /\ \A j \in DOMAIN ddl :
                  (/\ j # i
                   /\ ddl[j].op = "add"
                   /\ Lower(ddl[j].table) = Lower(ddl[i].table)
                   /\ Lower(ddl[j].col) = Lower(ddl[i].col)) => ddl[j].status # "ok"

\* C10: no step changes the declared type of a column that exists or removes
\* it, and a column is added once, with the type of the first scalar value
\* observed for it.
C10_ColumnTypeFixed ==
    [][/\ \A t \in DOMAIN db :
             /\ t \in DOMAIN db'
             /\ \A c \in DOMAIN db[t].cols :
                   /\ c \in DOMAIN db'[t].cols
                   /\ db'[t].cols[c] = db[t].cols[c]
       /\ AddedColumnsKeepType']_vars

\* C10 witness: a completed run in which a column declared INTEGER from the
\* first value holds the text of a later document
C10_Witness ==
    /\ pc = "done"
    /\ HasColumn(db, root_table, <<"a">>)
    /\ db[Lower(root_table)].cols[<<"a">>] = "INTEGER"
    /\ \E j \in DOMAIN RowsOf(root_table) :
          /\ <<"a">> \in DOMAIN RowsOf(root_table)[j]
          /\ RowsOf(root_table)[j][<<"a">>].t = "text"

-----------------------------------------------------------------------------
(* C11 *)

\* the documents that the schema pass has handled so far, with their place
SchemaHandled ==
    IF pc \in {"json_schema", "jl_schema"}
    THEN {j \in 1..(idx - 1) : IsDict(Processed[j])}
    ELSE {}

\* the document that the schema pass handled last, if any
LastSchemaDocument ==
    IF SchemaHandled = {} THEN {}
    ELSE {Processed[CHOOSE j \in SchemaHandled : \A k \in SchemaHandled : k <= j]}

\* a call that raises nothing and changes neither registry nor storage
SchemaCallIsNoOp(r) ==
    /\ r.ok
    /\ r.known = known_tables
    /\ r.db = db

\* C11: right after the schema pass has called _create_table_if_not_exists
\* for a document, whatever registry and storage state that call started
\* from, a second call with the same table path and document raises no
\* error and leaves the registry's column sets and the storage schema as
\* the first call left them.
C11_SchemaCallIdempotent ==
    \A doc \in LastSchemaDocument :
        idx - 1 \in SchemaHandled => SchemaCallIsNoOp(EnsureSchema(doc))

-----------------------------------------------------------------------------
(* C12 *)

\* the first character of the file that is not whitespace
FirstNonBlank(inp) == FirstChar([inp EXCEPT !.ws = FALSE])

\* C12: the input is processed as one JSON array exactly when its first
\* non-whitespace character is "[", and as newline-delimited documents
\* otherwise; leading whitespace does not change the choice.
C12_FormatFromFirstNonBlank ==
    /\ pc \in {"json_load", "json_schema", "json_write"} =>
          FirstNonBlank(input) = "["
    /\ pc \in {"jl_schema", "jl_write"} => FirstNonBlank(input) # "["

-----------------------------------------------------------------------------
(* C13 *)

\* the run is in its write pass
WritePass == pc \in {"json_write", "jl_write"}

\* C13: in the write pass a commit follows every CommitEvery-th record,
\* failed and skipped records counted, so that fewer than CommitEvery
\* processed records are ever uncommitted; at end of stream the final commit
\* is the step to take, and once it is taken nothing is left uncommitted,
\* however many records failed.
C13_CommitEveryBatchAndAtEnd ==
    /\ pending < CommitEvery
    /\ WritePass =>
          /\ commits = (idx - 1) \div CommitEvery
          /\ pending = (idx - 1) % CommitEvery
    /\ (pc = "json_write" /\ idx > Len(Processed)) => ENABLED JsonFinish
    /\ (pc = "jl_write" /\ idx > Len(Processed)) => ENABLED JlFinish
    /\ Completed =>
          /\ pending = 0
          /\ commits = (Len(Processed) \div CommitEvery) + 1

\* C13 witness: the write pass has just committed after writing its
\* CommitEvery-th record
C13_Witness ==
    /\ pc = "json_write"
    /\ idx = CommitEvery + 1
    /\ commits = 1
    /\ pending = 0
    /\ Len(RowsOf(root_table)) = CommitEvery

-----------------------------------------------------------------------------
(* C14 *)

\* the lines of a lines file that do not parse
UnparseableLines ==
    IF input.shape = "lines"
    THEN {i \in DOMAIN FileRecords(input) : FileRecords(input)[i] = Bad}
    ELSE {}

\* a lines file of plain documents with exactly one unparseable line among
\* them
OneUnparseableLine ==
    /\ Cardinality(UnparseableLines) = 1
    /\ Len(FileRecords(input)) > 1
    /\ \A j \in DOMAIN FileRecords(input) :
          j \notin UnparseableLines => PlainDocument(FileRecords(input)[j])

\* C14: a complete run over valid lines with exactly one unparseable line
\* among them leaves exactly one error log entry, which reports that line,
\* and one root row per valid line.
C14_OneLogEntryPerMalformedLine ==
    (OneUnparseableLine /\ Completed) =>
        /\ Len(log) = 1
        /\ \A i \in DOMAIN log : log[i].cause = "decode" /\ log[i].n \in UnparseableLines
        /\ Len(RowsOf(root_table)) = Len(FileRecords(input)) - 1

-----------------------------------------------------------------------------
(* C15 *)

\* no exception has come out of a schema call
SchemaPassClean ==
    \A i \in DOMAIN log : log[i].cause # "schema"

\* the <<table, column>> of the scalar fields of doc, a document of table:
\* its own and those of its nested objects and of the objects in its arrays
RECURSIVE ScalarColumns(_, _)
ScalarColumns(table_name, doc) ==
    UNION { LET column_name == _sanitize_name(doc.v[i][1])
                value == doc.v[i][2]
                child == ChildPath(table_name, column_name)
            IN  IF IsDict(value) THEN ScalarColumns(child, value)
                ELSE IF IsObjectArray(value)
                THEN UNION {ScalarColumns(child, value.v[k]) :
                              k \in {m \in DOMAIN value.v : IsDict(value.v[m])}}
                ELSE IF IsList(value) THEN {}
                ELSE {<<table_name, column_name>>}
          : i \in DOMAIN doc.v }

\* once the schema pass is over, every scalar field of the input has its
\* column in storage
ScalarFieldsHaveColumns ==
    (WritePass \/ Completed) =>
        \A j \in DOMAIN Processed :
            IsDict(Processed[j]) =>
                \A tc \in ScalarColumns(root_table, Processed[j]) :
                    HasColumn(db, tc[1], tc[2])

\* every row of the earlier run, of the storage on which this run started,
\* is where it was, as it was
PriorRowsUntouched ==
    LET prior == StorageAfter(input.prior)
    IN  \A t \in DOMAIN prior :
            /\ t \in DOMAIN db
            /\ Len(db[t].rows) >= Len(prior[t].rows)
            /\ \A k \in DOMAIN prior[t].rows : db[t].rows[k] = prior[t].rows[k]

\* no two rows of a table have the same id
RowIdsDistinct ==
    \A t \in DOMAIN db :
        \A j, k \in DOMAIN db[t].rows :
            j # k => db[t].rows[j][RowId] # db[t].rows[k][RowId]

\* C15: a run with a new registry on the database of an earlier run with
\* the same root table raises no error from schema creation, adds a column
\* for every scalar field that storage does not have yet, leaves every row
\* of the earlier run unchanged and gives new rows ids of their own.
C15_RerunOnExistingDatabase ==
    /\ SchemaPassClean
    /\ ScalarFieldsHaveColumns
    /\ PriorRowsUntouched
    /\ RowIdsDistinct

-----------------------------------------------------------------------------
(* C16 *)

SchemaPass == pc \in {"json_schema", "jl_schema"}

\* the records that the pass at hand iterates over
PassRecords == IF pc \in {"json_schema", "json_write"} THEN Data ELSE Lines

\* the step leaves every table and every column of storage as it is
SchemaKept ==
    /\ DOMAIN db' = DOMAIN db
    /\ \A t \in DOMAIN db : db'[t].cols = db[t].cols

\* the step removes no table and no column
NothingDropped ==
    \A t \in DOMAIN db :
        /\ t \in DOMAIN db'
        /\ \A c \in DOMAIN db[t].cols :
              c \in DOMAIN db'[t].cols /\ db'[t].cols[c] = db[t].cols[c]

\* the step leaves every row where it was, as it was
RowsKept ==
    \A t \in DOMAIN db :
        /\ t \in DOMAIN db'
        /\ Len(db'[t].rows) >= Len(db[t].rows)
        /\ \A k \in DOMAIN db[t].rows : db'[t].rows[k] = db[t].rows[k]

\* the step inserts a row
RowInsertedByStep ==
    \/ written' # written
    \/ \E t \in DOMAIN db' :
          Len(db'[t].rows) > (IF t \in DOMAIN db THEN Len(db[t].rows) ELSE 0)

\* C16: every CREATE TABLE and ADD COLUMN happens before the first INSERT:
\* statements of the schema are executed by the schema pass only and while
\* no row was written by the run; the write pass starts only when the
\* schema pass has visited every record; the write pass changes no table
\* and no column; no table or column is removed; no row is updated or
\* deleted, and rows are inserted by the write pass only.
C16_SchemaBeforeRows ==
    [][ /\ (ddl' # ddl \/ ~SchemaKept) =>
              SchemaPass /\ written = <<>> /\ written' = <<>>
        /\ (~WritePass /\ WritePass') =>
              SchemaPass /\ idx = Len(PassRecords) + 1
        /\ WritePass => SchemaKept /\ ddl' = ddl
        /\ NothingDropped
        /\ RowsKept
        /\ RowInsertedByStep => WritePass
      ]_vars

\* a row is written after a table with a column and a child table were made
C16_Witness ==
    /\ WritePass
    /\ Len(written) >= 2
    /\ \E i, j \in DOMAIN ddl : ddl[i].op = "create" /\ ddl[j].op = "add"
    /\ Len(PassRecords) = 2

-----------------------------------------------------------------------------
(* C17 *)

\* the names that the run has given to _sanitize_name as column names: the
\* keys of the documents that the schema pass has taken up
SanitizedNames ==
    { Processed[j].v[i][1] :
        j \in {k \in DOMAIN Processed :
                 /\ IsDict(Processed[k])
                 /\ \/ SchemaPass /\ k < idx
                    \/ WritePass \/ Completed},
        i \in 1..1 } \cap Names

\* the name with each character that is not alphanumeric replaced by "_"
Replaced(name) ==
    [i \in 1..Len(name) |-> IF IsAlnum(name[i]) THEN name[i] ELSE "_"]

\* the rule of _sanitize_name, with the words of its own list as the
\* reserved words
SanitizeRuleOnOwnList ==
    \A name \in SanitizedNames :
        LET result == _sanitize_name(name)
        IN  /\ result = IF Lower(Replaced(name)) \in reserved_keywords
                        THEN <<"_">> \o Replaced(name)
                        ELSE Replaced(name)
            /\ Lower(result) \notin reserved_keywords
            /\ _sanitize_name(result) = result

\* C17: _sanitize_name returns the name with each non-alphanumeric
\* character replaced by "_", with one "_" in front exactly when that result
\* in lower case is a reserved word of the storage engine; the result is
\* never a reserved word, whatever its case, and sanitizing it again gives
\* it back unchanged.
C17_SanitizedNameNotReserved ==
    \A name \in SanitizedNames :
        LET result == _sanitize_name(name)
        IN  /\ result \in {Replaced(name), <<"_">> \o Replaced(name)}
            /\ Lower(Replaced(name)) \in EngineKeywords =>
                  result = <<"_">> \o Replaced(name)
            /\ result # Replaced(name) =>
                  Lower(Replaced(name)) \in reserved_keywords \cup EngineKeywords
            /\ Lower(result) \notin EngineKeywords
            /\ _sanitize_name(result) = result

-----------------------------------------------------------------------------
(* C18 *)

\* the log entries of the calls of _insert_data whose own try block raised
\* before or at the INSERT: an entry of the except clause that does not
\* follow the entry of a call further down
OwnInsertFailures ==
    {i \in DOMAIN log :
        /\ log[i].kind = "insert"
        /\ i = 1 \/ log[i - 1].kind # "insert"}

\* no call on an existing table, given a document, failed at its own INSERT
NoOwnInsertFailure ==
    \A i \in OwnInsertFailures :
        ~(HasTable(db, log[i].table) /\ log[i].cause # "not_object")

\* the rows of a table that carry the id
RowsWithId(table, id) ==
    {k \in DOMAIN RowsOf(table) : RowsOf(table)[k][RowId] = VInt(id)}

\* the columns of the row of a document without scalar fields
BareRowColumns(e) ==
    {RowId} \cup (IF Len(e.parent) > 0
                  THEN {Lower(ParentRefCol(WriterParentTable(e.table)))}
                  ELSE {})

\* every INSERT that succeeded left one row with the returned id; a row of a
\* child table came after the row of the call that made the child call and
\* refers to it; a document without scalar fields has a row of the id alone,
\* or of the id and the parent reference
WrittenRowsInPlace ==
    \A j \in DOMAIN written :
        LET e == written[j]
        IN  /\ Cardinality(RowsWithId(e.table, e.id)) = 1
            /\ Len(e.parent) > 0 =>
                  \E i \in 1..(j - 1) :
                      /\ written[i].table = e.caller
                      /\ written[i].id = e.parent[1]
                      /\ written[i].rec = e.rec
            /\ Separate(e.doc.v, 1, [simple |-> <<>>, nested |-> <<>>]).simple = <<>> =>
                  \A k \in RowsWithId(e.table, e.id) :
                      /\ DOMAIN RowsOf(e.table)[k] = BareRowColumns(e)
                      /\ Len(e.parent) > 0 =>
                            RowsOf(e.table)[k][Lower(ParentRefCol(WriterParentTable(e.table)))]
                              = VInt(e.parent[1])

\* C18: every call of _insert_data on an existing table inserts exactly one
\* row into that table, before any row of a descendant table, and returns
\* its id; a document without scalar fields gets a row too, holding only
\* the parent reference, or defaults only.
C18_CallInsertsOneRow ==
    /\ NoOwnInsertFailure
    /\ WrittenRowsInPlace

-----------------------------------------------------------------------------
(* C19 *)

\* the tables that the run has ensured in storage: CREATE TABLE IF NOT
\* EXISTS went through
EnsuredTables ==
    {ddl[i].table : i \in {k \in DOMAIN ddl :
                              ddl[k].op = "create" /\ ddl[k].status = "ok"}}

\* the columns that CREATE TABLE gives a table: the row id and the parent
\* reference, if the table was made under a parent
SyntheticColumns(table) ==
    {RowId} \cup
    {Lower(ParentRefCol(ddl[i].parent)) :
        i \in {k \in DOMAIN ddl : /\ ddl[k].op = "create"
                                  /\ ddl[k].table = table
                                  /\ Len(ddl[k].parent) > 0}}

\* the tables of the registry are the tables ensured in storage
RegistryTablesAgree ==
    /\ DOMAIN known_tables = EnsuredTables
    /\ \A t \in DOMAIN known_tables : HasTable(db, t)

\* the columns of the registry are the columns of storage that come from
\* documents (storage compares names without regard to case)
RegistryColumnsAgree ==
    \A t \in DOMAIN known_tables :
        HasTable(db, t) =>
            {Lower(c) : c \in known_tables[t]} =
                DOMAIN db[Lower(t)].cols \ SyntheticColumns(t)

\* a scalar field that was handled, the ADD COLUMN having succeeded or met a
\* duplicate column, is in storage and in the registry
HandledColumnsRecorded ==
    \A i \in DOMAIN ddl :
        (ddl[i].op = "add" /\ ddl[i].status \in {"ok", "duplicate"}) =>
            /\ HasColumn(db, ddl[i].table, ddl[i].col)
            /\ ddl[i].table \in DOMAIN known_tables
            /\ ddl[i].col \in known_tables[ddl[i].table]

\* C19: at every commit registry and storage agree: a table path is in
\* known_tables exactly when the table was ensured in storage, the columns
\* of the registry are the columns of storage that come from documents,
\* and a scalar field that _create_table_if_not_exists has handled is in
\* storage and in the registry, also after a tolerated duplicate column.
C19_RegistryAgreesAtCommit ==
    (commits > 0) =>
        /\ RegistryTablesAgree
        /\ RegistryColumnsAgree
        /\ HandledColumnsRecorded

-----------------------------------------------------------------------------
(* C20 *)

\* the column list of the INSERT that wrote the row of the history entry e
ColumnsWritten(e) ==
    InsertColumns(Separate(e.doc.v, 1, [simple |-> <<>>, nested |-> <<>>]).simple,
                  ParentRefCol(WriterParentTable(e.table)), e.parent)

\* the places of a column in a column list, names compared as storage
\* compares them
PlacesOf(columns, col) ==
    {i \in DOMAIN columns : Lower(columns[i]) = Lower(col)}

\* C20: no field of a document sets a synthetic column: the column list of
\* every INSERT issued by _insert_data is without row__id and has the parent
\* reference of the table at most once, with the value parent_id -- only
\* under a parent, never from a key of the document.
C20_SyntheticColumnsFromWriterOnly ==
    \A j \in DOMAIN written :
        LET e == written[j]
            columns == ColumnsWritten(e)
            values == InsertValues(
                          Separate(e.doc.v, 1, [simple |-> <<>>, nested |-> <<>>]).simple,
                          e.parent)
            ref == ParentRefCol(WriterParentTable(e.table))
        IN  /\ PlacesOf(columns, RowId) = {}
            /\ Cardinality(PlacesOf(columns, ref)) <= 1
            /\ PlacesOf(columns, ref) # {} =>
                  /\ Len(e.parent) > 0
                  /\ \A i \in PlacesOf(columns, ref) :
                        values[i] = VInt(e.parent[1])

=============================================================================
